---------------------------- MODULE Spec2Model ----------------------------
(***************************************************************************)
(* PTT-Kode (src/src/main.cpp): the push-to-talk client of the Kode Dot.   *)
(*                                                                         *)
(* Three scheduling contexts share plain volatile flags:                   *)
(*   - ptt_button_task  (core 0) polls the button and publishes edges,     *)
(*   - i2s_read_task    (core 0) captures frames and sends them,           *)
(*   - loop()           (core 1) pumps the WebSocket, handles PTT changes, *)
(*                      the incoming-audio indication and the keepalive.   *)
(* Every access to a flag shared between contexts is a step of its own, so *)
(* the interleavings of the unsynchronised accesses are all explored.      *)
(*                                                                         *)
(* Specifications:                                                         *)
(*   Spec      button task and main loop, connection up and down           *)
(*   SpecCap   the same with the capture task                              *)
(*   SpecUi    button task and main loop with inbound audio and the clock  *)
(*   SpecAuth  setup(): readOrCreatePTTConfig and loginAndGetDevice        *)
(*   SpecPing  button task and main loop over a minute, for the keepalive  *)
(*   SpecBoot  setup() followed by the running device                      *)
(*   SpecLive  button task and main loop with inbound audio, each          *)
(*             scheduled fairly                                            *)
(***************************************************************************)
EXTENDS Integers, Sequences, FiniteSets

(***************************************************************************)
(* Program constants.                                                      *)
(***************************************************************************)
KEEPALIVE_MS == 20000
AUDIO_DECAY_MS == 1200
I2S_READ_BUFFER_BYTES == 512

(***************************************************************************)
(* Bounds of the model.                                                    *)
(***************************************************************************)
\* Spec: the button task and the main loop racing on the PTT flags.
\* physical level changes of the button (2 per press-hold-release cycle)
MaxToggles == 4
\* Connected / Disconnected events the transport delivers
MaxConnEvents == 3
\* SpecCap: the capture task racing with the button task and the main loop.
CapToggles == 1
CapConnEvents == 2
\* frames i2s_read hands to the capture task
CapFrames == 2
\* SpecUi: the button, inbound audio and the clock driving the presentation.
UiToggles == 2
UiConnEvents == 1
\* inbound binary frames the transport delivers
UiBin == 2
\* clock ticks
UiTicks == 5
\* SpecPing: the keepalive over a minute of running.
PingToggles == 1
PingConnEvents == 3
\* clock ticks of a quarter of the keepalive interval
PingTicks == 10
\* SpecBoot: setup() followed by the running device.
BootToggles == 1
BootConnEvents == 1
BootFrames == 1

\* SpecLive: button task and main loop with inbound audio, scheduled fairly.
LiveToggles == 2
LiveConnEvents == 1
LiveBin == 2

\* The clock advances in steps of a third of the decay window, so that the
\* instant lastAudioReceiveTime + AUDIO_DECAY_MS is one of its values.
TickMs == AUDIO_DECAY_MS \div 3

\* The keepalive is followed with a coarser clock: a quarter of the
\* keepalive interval, so that lastPingTime + KEEPALIVE_MS is one of its values.
PingTickMs == KEEPALIVE_MS \div 4

\* millis() - t for an earlier reading t of millis().  The unsigned long
\* difference is the elapsed time also across a wrap of millis(); the clock
\* of the model stays far below the wrap (49.7 days), so it is a - b.
Elapsed(a, b) == a - b

\* millis() when setup() returns: the delay() calls of a successful setup()
\* and loginAndGetDevice() add up to more than three decay windows.
StartMs == 3 * AUDIO_DECAY_MS

VARIABLES
    \* ---- environment
    btnLevel,               \* TRUE: the button is physically held
    nToggles,               \* level changes so far
    now,                    \* millis()
    nConnEvents,            \* Connected/Disconnected events delivered
    binLog,                 \* arrival times of the inbound binary frames
    lim,                    \* how many inputs of each kind the run may draw
    \* ---- ptt_button_task
    pcB, lastState, currentState,
    \* ---- shared flags
    isPttActive, pttStateChanged, isWebSocketConnected,
    isReceivingAudio, lastAudioReceiveTime, lastPingTime,
    \* ---- i2s_read_task
    pcA, frameNo, i2s_read_buffer, bytesRead,
    \* ---- loop()
    pcL,
    \* ---- presentation
    lblStatus, lblPttStatus, lblIncomingStatus, led,
    \* ---- observation of the program's outputs
    wire,                   \* messages handed to the WebSocket, in order
    edges,                  \* edges published by ptt_button_task, in order
    handled,                \* executions of loop()'s PTT-change branch
    capSnap,                \* frame -> flags at the instant its read completed
    gPtt,                   \* frames whose guard read isPttActive as true
    gConn,                  \* frames whose guard read isWebSocketConnected as true
    binCalls,               \* frames passed to sendBIN, in order
    linkStable,             \* Connected before any press and never dropped
    speaker,                \* inbound frames written to the speaker, in order
    iterEdges,              \* edges published when loop()'s iteration began
                            \* (followed in Spec only)
    connStart,              \* length of the wire when the connection came up
    wrEdges,                \* edges published during the latest blocked write to
                            \* the speaker (followed in SpecLive only)
    \* ---- setup(): configuration and authentication
    pcS, httpClient, statusCode, responseBody, globalToken, globalDeviceId,
    requests,               \* HTTP requests issued, in order
    responses               \* the bodies of their responses, in order

envVars == <<btnLevel, nToggles, now, nConnEvents, binLog, lim>>
btnVars == <<pcB, lastState, currentState>>
capVars == <<pcA, frameNo, i2s_read_buffer, bytesRead>>
uiVars == <<lblPttStatus, lblIncomingStatus, led>>
obsVars == <<wire, edges, handled, capSnap, gPtt, gConn, binCalls, linkStable,
             speaker, iterEdges, connStart, wrEdges>>
authVars == <<pcS, httpClient, statusCode, responseBody, globalToken,
              globalDeviceId, requests, responses>>
vars == <<envVars, btnVars, capVars, uiVars, obsVars, authVars, pcL, lblStatus,
          isPttActive, pttStateChanged, isWebSocketConnected,
          isReceivingAudio, lastAudioReceiveTime, lastPingTime>>

\* LED colours: led_set_rgb(0,0,0), (0,50,0), (60,30,0)
LedOff == "off"
LedGreen == "green"
LedAmber == "amber"

Msg(t, f) == [type |-> t, frame |-> f]

(***************************************************************************)
(* The globals as initialised at lines 102-113, the labels as left by      *)
(* create_ptt_ui(), the LED off (line 874), the tasks at their first       *)
(* statement, millis() as it is when setup() returns.                      *)
(***************************************************************************)
RunInit ==
    /\ btnLevel = FALSE /\ nToggles = 0 /\ now = StartMs
    /\ nConnEvents = 0 /\ binLog = <<>>
    /\ pcB = "poll" /\ lastState = FALSE /\ currentState = FALSE
    /\ isPttActive = FALSE /\ pttStateChanged = FALSE
    /\ isWebSocketConnected = FALSE
    /\ isReceivingAudio = FALSE /\ lastAudioReceiveTime = 0
    /\ lastPingTime = 0
    /\ pcA = "read" /\ frameNo = 0 /\ i2s_read_buffer = 0 /\ bytesRead = 0
    /\ pcL = "ws"
    /\ lblPttStatus = "HOLD TO TALK"
    /\ lblIncomingStatus = "" /\ led = LedOff
    /\ wire = <<>> /\ edges = <<>> /\ handled = 0
    /\ capSnap = <<>> /\ gPtt = {} /\ gConn = {} /\ binCalls = <<>>
    /\ linkStable = TRUE /\ speaker = <<>>
    /\ iterEdges = 0 /\ connStart = 0 /\ wrEdges = 0

(***************************************************************************)
(* Environment: the user's finger and the clock.                           *)
(***************************************************************************)
Toggle ==
    /\ nToggles < lim.toggles
    /\ btnLevel' = ~btnLevel
    /\ nToggles' = nToggles + 1
    /\ linkStable' = (linkStable /\ isWebSocketConnected)
    /\ UNCHANGED <<now, nConnEvents, binLog, lim, btnVars, capVars, uiVars, authVars,
                   pcL, lblStatus, isPttActive, pttStateChanged,
                   isWebSocketConnected, isReceivingAudio,
                   lastAudioReceiveTime, lastPingTime,
                   wire, edges, handled, capSnap, gPtt, gConn, binCalls, speaker,
                   iterEdges, connStart, wrEdges>>

\* One iteration of loop() (delay(5) and short calls) is far shorter than a
\* tick, so the clock is advanced between iterations.
Tick ==
    /\ pcL = "ws"
    /\ now < StartMs + lim.ticks * TickMs
    /\ now' = now + TickMs
    /\ UNCHANGED <<btnLevel, nToggles, nConnEvents, binLog, lim, btnVars, capVars,
                   uiVars, obsVars, authVars, pcL, lblStatus, isPttActive,
                   pttStateChanged, isWebSocketConnected, isReceivingAudio,
                   lastAudioReceiveTime, lastPingTime>>

\* the clock over the keepalive's time scale
LongTick ==
    /\ pcL = "ws"
    /\ now < StartMs + lim.ticks * PingTickMs
    /\ now' = now + PingTickMs
    /\ UNCHANGED <<btnLevel, nToggles, nConnEvents, binLog, lim, btnVars, capVars,
                   uiVars, obsVars, authVars, pcL, lblStatus, isPttActive,
                   pttStateChanged, isWebSocketConnected, isReceivingAudio,
                   lastAudioReceiveTime, lastPingTime>>

(***************************************************************************)
(* ptt_button_task: lines 711-731.                                         *)
(***************************************************************************)
\* line 721 and the comparison of line 723; the button is active-low, so the
\* negated pin level is "held".  Without an edge the task sleeps and polls
\* again (line 729).
BtnPoll ==
    /\ pcB = "poll"
    /\ currentState' = btnLevel
    /\ pcB' = IF btnLevel # lastState THEN "w1" ELSE "poll"
    /\ UNCHANGED <<lastState, envVars, capVars, uiVars, obsVars, authVars, pcL,
                   lblStatus, isPttActive, pttStateChanged,
                   isWebSocketConnected, isReceivingAudio,
                   lastAudioReceiveTime, lastPingTime>>

\* line 725
BtnWriteActive ==
    /\ pcB = "w1"
    /\ isPttActive' = currentState
    /\ pcB' = "w2"
    /\ UNCHANGED <<lastState, currentState, envVars, capVars, uiVars, obsVars,
                   authVars, pcL, lblStatus, pttStateChanged,
                   isWebSocketConnected, isReceivingAudio,
                   lastAudioReceiveTime, lastPingTime>>

\* BtnPublish with line 727 (lastState = currentState) forgotten
BtnPublish_KeepLast ==
    /\ pcB = "w2"
    /\ pttStateChanged' = TRUE
    /\ edges' = Append(edges, currentState)
    /\ pcB' = "poll"
    /\ UNCHANGED <<lastState, currentState, envVars, capVars, uiVars, authVars,
                   pcL, lblStatus, isPttActive, isWebSocketConnected,
                   isReceivingAudio, lastAudioReceiveTime, lastPingTime,
                   wire, handled, capSnap, gPtt, gConn, binCalls, linkStable, speaker,
                   iterEdges, connStart, wrEdges>>

\* lines 726-729: the edge is published by the write of pttStateChanged
BtnPublish ==
    /\ pcB = "w2"
    /\ pttStateChanged' = TRUE
    /\ lastState' = currentState
    /\ edges' = Append(edges, currentState)
    /\ pcB' = "poll"
    /\ UNCHANGED <<currentState, envVars, capVars, uiVars, authVars, pcL,
                   lblStatus, isPttActive, isWebSocketConnected,
                   isReceivingAudio, lastAudioReceiveTime, lastPingTime,
                   wire, handled, capSnap, gPtt, gConn, binCalls, linkStable, speaker,
                   iterEdges, connStart, wrEdges>>

(***************************************************************************)
(* i2s_read_task: lines 737-758.                                           *)
(***************************************************************************)
\* line 745-750: the blocking read returns.  With portMAX_DELAY a successful
\* read fills the whole buffer; a failed one is skipped (continue).
CapRead ==
    /\ pcA = "read"
    /\ frameNo < lim.frames
    /\ \E ok \in BOOLEAN :
         IF ok
         THEN /\ frameNo' = frameNo + 1
              /\ i2s_read_buffer' = frameNo + 1
              /\ bytesRead' = I2S_READ_BUFFER_BYTES
              /\ capSnap' = Append(capSnap, [ptt |-> isPttActive,
                                              conn |-> isWebSocketConnected])
              /\ pcA' = "g1"
         ELSE /\ bytesRead' = 0
              /\ UNCHANGED <<frameNo, i2s_read_buffer, capSnap, pcA>>
    /\ UNCHANGED <<envVars, btnVars, uiVars, authVars, pcL, lblStatus,
                   isPttActive, pttStateChanged, isWebSocketConnected,
                   isReceivingAudio, lastAudioReceiveTime, lastPingTime,
                   wire, edges, handled, gPtt, gConn, binCalls, linkStable, speaker,
                   iterEdges, connStart, wrEdges>>

\* CapGuardPtt with the test of isPttActive dropped from the guard
CapGuardPtt_NoPttTest ==
    /\ pcA = "g1"
    /\ gPtt' = IF isPttActive THEN gPtt \cup {i2s_read_buffer} ELSE gPtt
    /\ pcA' = "g2"
    /\ UNCHANGED <<frameNo, i2s_read_buffer, bytesRead, envVars, btnVars,
                   uiVars, authVars, pcL, lblStatus, isPttActive,
                   pttStateChanged, isWebSocketConnected, isReceivingAudio,
                   lastAudioReceiveTime, lastPingTime,
                   wire, edges, handled, capSnap, gConn, binCalls, linkStable, speaker,
                   iterEdges, connStart, wrEdges>>

\* line 753, first operand of &&
CapGuardPtt ==
    /\ pcA = "g1"
    /\ gPtt' = IF isPttActive THEN gPtt \cup {i2s_read_buffer} ELSE gPtt
    /\ pcA' = IF isPttActive THEN "g2" ELSE "read"
    /\ UNCHANGED <<frameNo, i2s_read_buffer, bytesRead, envVars, btnVars,
                   uiVars, authVars, pcL, lblStatus, isPttActive,
                   pttStateChanged, isWebSocketConnected, isReceivingAudio,
                   lastAudioReceiveTime, lastPingTime,
                   wire, edges, handled, capSnap, gConn, binCalls, linkStable, speaker,
                   iterEdges, connStart, wrEdges>>

\* line 753, second and third operand of &&
CapGuardConn ==
    /\ pcA = "g2"
    /\ gConn' = IF isWebSocketConnected THEN gConn \cup {i2s_read_buffer}
                ELSE gConn
    /\ pcA' = IF isWebSocketConnected /\ bytesRead > 0 THEN "send" ELSE "read"
    /\ UNCHANGED <<frameNo, i2s_read_buffer, bytesRead, envVars, btnVars,
                   uiVars, authVars, pcL, lblStatus, isPttActive,
                   pttStateChanged, isWebSocketConnected, isReceivingAudio,
                   lastAudioReceiveTime, lastPingTime,
                   wire, edges, handled, capSnap, gPtt, binCalls, linkStable, speaker,
                   iterEdges, connStart, wrEdges>>

\* line 755: sendBIN of the buffer is invoked; the transport drops the
\* frame when it is not connected (it keeps no queue).  The task is inside
\* the call until CapSendReturn.
CapSend ==
    /\ pcA = "send"
    /\ binCalls' = Append(binCalls, i2s_read_buffer)
    /\ wire' = IF isWebSocketConnected
               THEN Append(wire, Msg("bin", i2s_read_buffer))
               ELSE wire
    /\ pcA' = "insend"
    /\ UNCHANGED <<frameNo, i2s_read_buffer, bytesRead, envVars, btnVars,
                   uiVars, authVars, pcL, lblStatus, isPttActive,
                   pttStateChanged, isWebSocketConnected, isReceivingAudio,
                   lastAudioReceiveTime, lastPingTime,
                   edges, handled, capSnap, gPtt, gConn, linkStable, speaker,
                   iterEdges, connStart, wrEdges>>

\* line 755: sendBIN returns, and the task goes round to the next read
CapSendReturn ==
    /\ pcA = "insend"
    /\ pcA' = "read"
    /\ UNCHANGED <<frameNo, i2s_read_buffer, bytesRead, envVars, btnVars,
                   uiVars, obsVars, authVars, pcL, lblStatus, isPttActive,
                   pttStateChanged, isWebSocketConnected, isReceivingAudio,
                   lastAudioReceiveTime, lastPingTime>>

(***************************************************************************)
(* webSocketEvent: lines 586-629.  It runs inside webSocket.loop(), in the *)
(* context of loop().  The write to the speaker (line 618) blocks inside   *)
(* the callback with no timeout: the pump stays in it until                *)
(* I2sWriteReturn.  speaker records the frames handed to i2s_write (a      *)
(* failed write is logged and skipped).                                    *)
(***************************************************************************)
\* webSocketEvent with the text of line 601 forgotten: a Connected event
\* leaves the status as it is
webSocketEvent_NoReadyText(type) ==
    CASE type = "DISCONNECTED" ->
           /\ isWebSocketConnected' = FALSE
           /\ lblStatus' = "Reconnecting..."
           /\ UNCHANGED <<lastAudioReceiveTime, isReceivingAudio, speaker>>
      [] type = "CONNECTED" ->
           /\ isWebSocketConnected' = TRUE
           /\ UNCHANGED <<lblStatus, lastAudioReceiveTime, isReceivingAudio,
                          speaker>>
      [] type = "BIN" ->
           /\ lastAudioReceiveTime' = now
           /\ isReceivingAudio' = TRUE
           /\ speaker' = Append(speaker, Len(binLog) + 1)
           /\ UNCHANGED <<isWebSocketConnected, lblStatus>>
      [] OTHER ->
           UNCHANGED <<isWebSocketConnected, lblStatus, lastAudioReceiveTime,
                       isReceivingAudio, speaker>>

\* webSocketEvent playing an inbound frame only while PTT is inactive
webSocketEvent_MutedWhileTalking(type) ==
    CASE type = "DISCONNECTED" ->
           /\ isWebSocketConnected' = FALSE
           /\ lblStatus' = "Reconnecting..."
           /\ UNCHANGED <<lastAudioReceiveTime, isReceivingAudio, speaker>>
      [] type = "CONNECTED" ->
           /\ isWebSocketConnected' = TRUE
           /\ lblStatus' = "Ready"
           /\ UNCHANGED <<lastAudioReceiveTime, isReceivingAudio, speaker>>
      [] type = "BIN" ->
           /\ lastAudioReceiveTime' = now
           /\ isReceivingAudio' = TRUE
           /\ speaker' = IF isPttActive THEN speaker
                         ELSE Append(speaker, Len(binLog) + 1)
           /\ UNCHANGED <<isWebSocketConnected, lblStatus>>
      [] OTHER ->
           UNCHANGED <<isWebSocketConnected, lblStatus, lastAudioReceiveTime,
                       isReceivingAudio, speaker>>

webSocketEvent(type) ==
    CASE type = "DISCONNECTED" ->
           /\ isWebSocketConnected' = FALSE
           /\ lblStatus' = "Reconnecting..."
           /\ UNCHANGED <<lastAudioReceiveTime, isReceivingAudio, speaker>>
      [] type = "CONNECTED" ->
           /\ isWebSocketConnected' = TRUE
           /\ lblStatus' = "Ready"
           /\ UNCHANGED <<lastAudioReceiveTime, isReceivingAudio, speaker>>
      [] type = "BIN" ->
           /\ lastAudioReceiveTime' = now
           /\ isReceivingAudio' = TRUE
           /\ speaker' = Append(speaker, Len(binLog) + 1)
           /\ UNCHANGED <<isWebSocketConnected, lblStatus>>
      [] OTHER ->
           UNCHANGED <<isWebSocketConnected, lblStatus, lastAudioReceiveTime,
                       isReceivingAudio, speaker>>

\* The events the transport can deliver in one webSocket.loop() call.
WsEvents ==
    {"NONE", "TEXT"}
      \cup (IF ~isWebSocketConnected /\ nConnEvents < lim.conn
            THEN {"CONNECTED"} ELSE {})
      \cup (IF isWebSocketConnected /\ nConnEvents < lim.conn
            THEN {"DISCONNECTED"} ELSE {})
      \cup (IF isWebSocketConnected /\ Len(binLog) < lim.bin
            THEN {"BIN"} ELSE {})

(***************************************************************************)
(* loop(): lines 907-978.                                                  *)
(***************************************************************************)
\* lines 912-916: the transport pump dispatches at most one event.  The
\* step begins an iteration of loop(); what iterEdges records of it is
\* said by each specification.
LoopWs ==
    /\ pcL = "ws"
    /\ \E type \in WsEvents :
         /\ webSocketEvent(type)
         /\ nConnEvents' = IF type \in {"CONNECTED", "DISCONNECTED"}
                           THEN nConnEvents + 1 ELSE nConnEvents
         /\ binLog' = IF type = "BIN" THEN Append(binLog, now) ELSE binLog
         /\ linkStable' = (linkStable /\ type # "DISCONNECTED")
         /\ connStart' = IF type = "CONNECTED" THEN Len(wire) ELSE connStart
         /\ pcL' = IF type = "BIN" THEN "wr" ELSE "chk"
    /\ UNCHANGED <<btnLevel, nToggles, now, lim, btnVars, capVars, uiVars, authVars,
                   isPttActive, pttStateChanged, lastPingTime,
                   wire, edges, handled, capSnap, gPtt, gConn, binCalls, wrEdges>>

\* i2s_write on a port whose output has stopped: the write never returns
I2sWriteReturn_OutputStalled ==
    /\ pcL = "wr"
    /\ pcL' = "wr"
    /\ UNCHANGED <<envVars, btnVars, capVars, uiVars, authVars, lblStatus,
                   isPttActive, pttStateChanged, isWebSocketConnected,
                   isReceivingAudio, lastAudioReceiveTime, lastPingTime,
                   wire, edges, handled, capSnap, gPtt, gConn, binCalls,
                   linkStable, speaker, iterEdges, connStart>>

\* line 618: i2s_write(..., portMAX_DELAY) returns once the DMA queue of the
\* I2S port, which setupI2S starts as a clock master with TX enabled, has
\* taken the frame; the callback and webSocket.loop() then return.  What
\* wrEdges records of the wait is said by each specification.
I2sWriteReturn ==
    /\ pcL = "wr"
    /\ pcL' = "chk"
    /\ UNCHANGED <<envVars, btnVars, capVars, uiVars, authVars, lblStatus,
                   isPttActive, pttStateChanged, isWebSocketConnected,
                   isReceivingAudio, lastAudioReceiveTime, lastPingTime,
                   wire, edges, handled, capSnap, gPtt, gConn, binCalls,
                   linkStable, speaker, iterEdges, connStart>>

\* line 919
LoopCheck ==
    /\ pcL = "chk"
    /\ pcL' = IF pttStateChanged THEN "clr" ELSE "rx"
    /\ UNCHANGED <<envVars, btnVars, capVars, uiVars, obsVars, authVars,
                   lblStatus, isPttActive, pttStateChanged,
                   isWebSocketConnected, isReceivingAudio,
                   lastAudioReceiveTime, lastPingTime>>

\* line 921
LoopClear ==
    /\ pcL = "clr"
    /\ pttStateChanged' = FALSE
    /\ handled' = handled + 1
    /\ pcL' = "ptt"
    /\ UNCHANGED <<envVars, btnVars, capVars, uiVars, authVars, lblStatus,
                   isPttActive, isWebSocketConnected, isReceivingAudio,
                   lastAudioReceiveTime, lastPingTime,
                   wire, edges, capSnap, gPtt, gConn, binCalls, linkStable, speaker,
                   iterEdges, connStart, wrEdges>>

\* LoopPtt with the tests of isWebSocketConnected (lines 926, 937) dropped
LoopPtt_SendsUnconditionally ==
    /\ pcL = "ptt"
    /\ IF isPttActive
       THEN /\ wire' = Append(wire, Msg("talk_start", 0))
            /\ lblPttStatus' = "TALKING"
            /\ led' = LedGreen
       ELSE /\ wire' = Append(wire, Msg("talk_stop", 0))
            /\ lblPttStatus' = "HOLD TO TALK"
            /\ led' = LedOff
    /\ pcL' = "rx"
    /\ UNCHANGED <<envVars, btnVars, capVars, authVars, lblStatus,
                   lblIncomingStatus, isPttActive, pttStateChanged,
                   isWebSocketConnected, isReceivingAudio,
                   lastAudioReceiveTime, lastPingTime,
                   edges, handled, capSnap, gPtt, gConn, binCalls, linkStable, speaker,
                   iterEdges, connStart, wrEdges>>

\* LoopPtt treating each notification as one edge: it flips the
\* presentation and does not read isPttActive
LoopPtt_FlipsOnEdge ==
    /\ pcL = "ptt"
    /\ IF lblPttStatus = "HOLD TO TALK"
       THEN /\ wire' = IF isWebSocketConnected
                       THEN Append(wire, Msg("talk_start", 0)) ELSE wire
            /\ lblPttStatus' = "TALKING"
            /\ led' = LedGreen
       ELSE /\ wire' = IF isWebSocketConnected
                       THEN Append(wire, Msg("talk_stop", 0)) ELSE wire
            /\ lblPttStatus' = "HOLD TO TALK"
            /\ led' = LedOff
    /\ pcL' = "rx"
    /\ UNCHANGED <<envVars, btnVars, capVars, authVars, lblStatus,
                   lblIncomingStatus, isPttActive, pttStateChanged,
                   isWebSocketConnected, isReceivingAudio,
                   lastAudioReceiveTime, lastPingTime,
                   edges, handled, capSnap, gPtt, gConn, binCalls, linkStable,
                   speaker, iterEdges, connStart, wrEdges>>

\* LoopPtt with led_show() (line 944) inside the pressed branch only: the
\* colour set on release is never shown
LoopPtt_OffNotShown ==
    /\ pcL = "ptt"
    /\ IF isPttActive
       THEN /\ wire' = IF isWebSocketConnected
                       THEN Append(wire, Msg("talk_start", 0)) ELSE wire
            /\ lblPttStatus' = "TALKING"
            /\ led' = LedGreen
       ELSE /\ wire' = IF isWebSocketConnected
                       THEN Append(wire, Msg("talk_stop", 0)) ELSE wire
            /\ lblPttStatus' = "HOLD TO TALK"
            /\ UNCHANGED led
    /\ pcL' = "rx"
    /\ UNCHANGED <<envVars, btnVars, capVars, authVars, lblStatus,
                   lblIncomingStatus, isPttActive, pttStateChanged,
                   isWebSocketConnected, isReceivingAudio,
                   lastAudioReceiveTime, lastPingTime,
                   edges, handled, capSnap, gPtt, gConn, binCalls, linkStable,
                   speaker, iterEdges, connStart, wrEdges>>

\* lines 922-944: one read of isPttActive, then the control message, the
\* label and the LED
LoopPtt ==
    /\ pcL = "ptt"
    /\ IF isPttActive
       THEN /\ wire' = IF isWebSocketConnected
                       THEN Append(wire, Msg("talk_start", 0)) ELSE wire
            /\ lblPttStatus' = "TALKING"
            /\ led' = LedGreen
       ELSE /\ wire' = IF isWebSocketConnected
                       THEN Append(wire, Msg("talk_stop", 0)) ELSE wire
            /\ lblPttStatus' = "HOLD TO TALK"
            /\ led' = LedOff
    /\ pcL' = "rx"
    /\ UNCHANGED <<envVars, btnVars, capVars, authVars, lblStatus,
                   lblIncomingStatus, isPttActive, pttStateChanged,
                   isWebSocketConnected, isReceivingAudio,
                   lastAudioReceiveTime, lastPingTime,
                   edges, handled, capSnap, gPtt, gConn, binCalls, linkStable, speaker,
                   iterEdges, connStart, wrEdges>>

\* LoopIncoming with the decay test of line 959 dropped: the indication is
\* cleaned up as soon as isReceivingAudio has been reset
LoopIncoming_NoDecayTest ==
    /\ pcL = "rx"
    /\ IF isReceivingAudio
       THEN /\ IF ~isPttActive
               THEN lblIncomingStatus' = "INCOMING" /\ led' = LedAmber
               ELSE UNCHANGED <<lblIncomingStatus, led>>
            /\ isReceivingAudio' = FALSE
       ELSE /\ IF lblIncomingStatus # ""
               THEN /\ lblIncomingStatus' = ""
                    /\ led' = IF ~isPttActive THEN LedOff ELSE led
               ELSE UNCHANGED <<lblIncomingStatus, led>>
            /\ UNCHANGED isReceivingAudio
    /\ pcL' = "ping"
    /\ UNCHANGED <<envVars, btnVars, capVars, obsVars, authVars, lblStatus,
                   lblPttStatus, isPttActive, pttStateChanged,
                   isWebSocketConnected, lastAudioReceiveTime, lastPingTime>>

\* lines 948-970: the incoming-audio indication; each path reads isPttActive
\* at most once
LoopIncoming ==
    /\ pcL = "rx"
    /\ IF isReceivingAudio
       THEN /\ IF ~isPttActive
               THEN lblIncomingStatus' = "INCOMING" /\ led' = LedAmber
               ELSE UNCHANGED <<lblIncomingStatus, led>>
            /\ isReceivingAudio' = FALSE
       ELSE /\ IF Elapsed(now, lastAudioReceiveTime) > AUDIO_DECAY_MS
                  /\ lblIncomingStatus # ""
               THEN /\ lblIncomingStatus' = ""
                    /\ led' = IF ~isPttActive THEN LedOff ELSE led
               ELSE UNCHANGED <<lblIncomingStatus, led>>
            /\ UNCHANGED isReceivingAudio
    /\ pcL' = "ping"
    /\ UNCHANGED <<envVars, btnVars, capVars, obsVars, authVars, lblStatus,
                   lblPttStatus, isPttActive, pttStateChanged,
                   isWebSocketConnected, lastAudioReceiveTime, lastPingTime>>

\* LoopPing with the test of isWebSocketConnected dropped
LoopPing_NoConnectedTest ==
    /\ pcL = "ping"
    /\ IF Elapsed(now, lastPingTime) > KEEPALIVE_MS
       THEN /\ wire' = Append(wire, Msg("ping", 0))
            /\ lastPingTime' = now
       ELSE UNCHANGED <<wire, lastPingTime>>
    /\ pcL' = "ws"
    /\ UNCHANGED <<envVars, btnVars, capVars, uiVars, authVars, lblStatus,
                   isPttActive, pttStateChanged, isWebSocketConnected,
                   isReceivingAudio, lastAudioReceiveTime,
                   edges, handled, capSnap, gPtt, gConn, binCalls, linkStable, speaker,
                   iterEdges, connStart, wrEdges>>

\* lines 973-977
LoopPing ==
    /\ pcL = "ping"
    /\ IF isWebSocketConnected /\ Elapsed(now, lastPingTime) > KEEPALIVE_MS
       THEN /\ wire' = Append(wire, Msg("ping", 0))
            /\ lastPingTime' = now
       ELSE UNCHANGED <<wire, lastPingTime>>
    /\ pcL' = "ws"
    /\ UNCHANGED <<envVars, btnVars, capVars, uiVars, authVars, lblStatus,
                   isPttActive, pttStateChanged, isWebSocketConnected,
                   isReceivingAudio, lastAudioReceiveTime,
                   edges, handled, capSnap, gPtt, gConn, binCalls, linkStable, speaker,
                   iterEdges, connStart, wrEdges>>

(***************************************************************************)
(* setup(): readOrCreatePTTConfig (lines 169-259) and loginAndGetDevice    *)
(* (lines 472-584) with tryRegisterUser (lines 432-470).  The server's     *)
(* answers are inputs: a status code and a body per request.               *)
(***************************************************************************)
\* HTTP status codes the server answers with
Statuses == {200, 201, 401, 500}

\* a response body: the JSON keys the code reads ("" = key absent)
Body(tok, dev) == [access_token |-> tok, deviceId |-> dev]
TokenBodies == {Body("tokA", ""), Body("tokB", ""), Body("", "")}
DeviceBodies == {Body("", "devA"), Body("", "")}
RegisterBodies == {Body("", "")}

\* doc[key].as<String>(): ArduinoJson renders an absent key as "null"
AsString(v) == IF v = "" THEN "null" ELSE v

Req(r, st) == [req |-> r, status |-> st]

\* the outcomes of readOrCreatePTTConfig: only a PTT.json that parses and
\* has an Endpoint key reaches the construction of the HttpClient (line 230)
ConfigCases ==
    {"missing_created", "present_no_endpoint", "present_endpoint",
     "unparseable_created", "uncreatable"}

\* lines 169-259, called at line 840 (its result is not used)
ReadOrCreatePTTConfig ==
    /\ pcS = "config"
    /\ \E c \in ConfigCases :
         httpClient' = IF c = "present_endpoint" THEN "set" ELSE "null"
    /\ lblStatus' = "Credentials OK"
    /\ pcS' = "token1"
    /\ UNCHANGED <<statusCode, responseBody, globalToken, globalDeviceId,
                   requests, responses>>

\* tryRegisterUser accepting every status from 200 up
tryRegisterUser_From200(st) == st >= 200

\* lines 457-469: the result of tryRegisterUser for a registration status
tryRegisterUser(st) == st = 200 \/ st = 201

\* lines 539-547: the token is taken from the body of the last token response
StoreToken(body) == globalToken' = AsString(body.access_token)

\* LoginToken1 registering after every failed token request, not only
\* after a 401
LoginToken1_RegisterOnAnyFailure ==
    /\ pcS = "token1"
    /\ IF httpClient = "null"
       THEN /\ pcS' = "crashed"
            /\ UNCHANGED <<statusCode, responseBody, globalToken, requests,
                           responses, lblStatus>>
       ELSE \E st \in Statuses, body \in TokenBodies :
              /\ requests' = Append(requests, Req("POST /token", st))
              /\ responses' = Append(responses, body)
              /\ statusCode' = st
              /\ responseBody' = body
              /\ IF st # 200
                 THEN /\ pcS' = "register"
                      /\ lblStatus' = "401: Registering..."
                      /\ UNCHANGED globalToken
                 ELSE /\ pcS' = "device"
                      /\ lblStatus' = "Getting Device ID..."
                      /\ StoreToken(body)
    /\ UNCHANGED <<httpClient, globalDeviceId>>

\* lines 472-537, first token request.  A null httpClient is dereferenced
\* at line 485: the access to address 0 raises a CPU exception.
LoginToken1 ==
    /\ pcS = "token1"
    /\ IF httpClient = "null"
       THEN /\ pcS' = "crashed"
            /\ UNCHANGED <<statusCode, responseBody, globalToken, requests,
                           responses, lblStatus>>
       ELSE \E st \in Statuses, body \in TokenBodies :
              /\ requests' = Append(requests, Req("POST /token", st))
              /\ responses' = Append(responses, body)
              /\ statusCode' = st
              /\ responseBody' = body
              /\ IF st = 401
                 THEN /\ pcS' = "register"
                      /\ lblStatus' = "401: Registering..."
                      /\ UNCHANGED globalToken
                 ELSE IF st # 200
                 THEN /\ pcS' = "halted"
                      /\ lblStatus' = "Auth Failed!"
                      /\ UNCHANGED globalToken
                 ELSE /\ pcS' = "device"
                      /\ lblStatus' = "Getting Device ID..."
                      /\ StoreToken(body)
    /\ UNCHANGED <<httpClient, globalDeviceId>>

\* lines 499 and 522-528 with tryRegisterUser, lines 432-470; a failed
\* login ends setup() in the halt of lines 866-872
LoginRegister ==
    /\ pcS = "register"
    /\ \E st \in Statuses, body \in RegisterBodies :
         /\ requests' = Append(requests, Req("POST /register", st))
         /\ responses' = Append(responses, body)
         /\ IF tryRegisterUser(st)
            THEN pcS' = "token2" /\ lblStatus' = "Login again..."
            ELSE pcS' = "halted" /\ lblStatus' = "Auth Failed!"
    /\ UNCHANGED <<httpClient, statusCode, responseBody, globalToken,
                   globalDeviceId>>

\* LoginToken2 with the retry's response kept in a variable of the inner
\* block: the token is parsed from the body of the first response
LoginToken2_ShadowedBody ==
    /\ pcS = "token2"
    /\ \E st \in Statuses, body \in TokenBodies :
         /\ requests' = Append(requests, Req("POST /token", st))
         /\ responses' = Append(responses, body)
         /\ statusCode' = st
         /\ UNCHANGED responseBody
         /\ IF st # 200
            THEN /\ pcS' = "halted"
                 /\ lblStatus' = "Auth Failed!"
                 /\ UNCHANGED globalToken
            ELSE /\ pcS' = "device"
                 /\ lblStatus' = "Getting Device ID..."
                 /\ StoreToken(responseBody)
    /\ UNCHANGED <<httpClient, globalDeviceId>>

\* lines 501-520: the one retry of the token request
LoginToken2 ==
    /\ pcS = "token2"
    /\ \E st \in Statuses, body \in TokenBodies :
         /\ requests' = Append(requests, Req("POST /token", st))
         /\ responses' = Append(responses, body)
         /\ statusCode' = st
         /\ responseBody' = body
         /\ IF st # 200
            THEN /\ pcS' = "halted"
                 /\ lblStatus' = "Auth Failed!"
                 /\ UNCHANGED globalToken
            ELSE /\ pcS' = "device"
                 /\ lblStatus' = "Getting Device ID..."
                 /\ StoreToken(body)
    /\ UNCHANGED <<httpClient, globalDeviceId>>

\* lines 549-584: the device-identity request
LoginDevice ==
    /\ pcS = "device"
    /\ \E st \in Statuses, body \in DeviceBodies :
         /\ requests' = Append(requests, Req("GET /devices/me", st))
         /\ responses' = Append(responses, body)
         /\ statusCode' = st
         /\ responseBody' = body
         /\ IF st # 200
            THEN /\ pcS' = "halted"
                 /\ lblStatus' = "Auth Failed!"
                 /\ UNCHANGED globalDeviceId
            ELSE /\ pcS' = "authok"
                 /\ lblStatus' = "Authenticated successfully!"
                 /\ globalDeviceId' = AsString(body.deviceId)
    /\ UNCHANGED <<httpClient, globalToken>>

\* SetupFinish with the endless loop of line 871 missing: after a failed
\* login setup() falls through to the creation of the tasks
SetupFinish_NoHalt ==
    /\ pcS \in {"authok", "halted"}
    /\ pcS' = "running"
    /\ lblStatus' = "Ready"
    /\ UNCHANGED <<httpClient, statusCode, responseBody, globalToken,
                   globalDeviceId, requests, responses>>

\* lines 860-905: after a successful login setup() configures the WebSocket,
\* starts the two tasks and shows "Ready"
SetupFinish ==
    /\ pcS = "authok"
    /\ pcS' = "running"
    /\ lblStatus' = "Ready"
    /\ UNCHANGED <<httpClient, statusCode, responseBody, globalToken,
                   globalDeviceId, requests, responses>>

\* the variables of the running device, untouched while setup() runs
runVars == <<envVars, btnVars, capVars, uiVars, obsVars, pcL, isPttActive,
             pttStateChanged, isWebSocketConnected, isReceivingAudio,
             lastAudioReceiveTime, lastPingTime>>

\* setup() is over after the plain successful login: one token request,
\* one device-identity request
AuthDone ==
    /\ pcS = "running" /\ httpClient = "set" /\ statusCode = 200
    /\ responseBody = Body("", "devA")
    /\ globalToken = "tokA" /\ globalDeviceId = "devA"
    /\ requests = <<Req("POST /token", 200), Req("GET /devices/me", 200)>>
    /\ responses = <<Body("tokA", ""), Body("", "devA")>>
    /\ lblStatus = "Ready"

(***************************************************************************)
(* Spec: the button task and the main loop, with the connection coming up  *)
(* and going down.  The capture task is left out (it writes none of the    *)
(* variables these two read), there is no inbound audio, and the clock     *)
(* stands still: the run is shorter than one tick.                         *)
(***************************************************************************)
Init ==
    /\ RunInit /\ AuthDone
    /\ lim = [toggles |-> MaxToggles, frames |-> 0,
              conn |-> MaxConnEvents, bin |-> 0, ticks |-> 0]

Next ==
    \/ Toggle
    \/ BtnPoll
    \/ BtnWriteActive
    \/ BtnPublish
    \/ LoopWs /\ iterEdges' = Len(edges)
    \/ LoopCheck
    \/ LoopClear
    \/ LoopPtt
    \/ LoopIncoming
    \/ LoopPing

Spec == Init /\ [][Next]_vars

(***************************************************************************)
(* SpecCap: all three contexts, the capture task included.                 *)
(***************************************************************************)
InitCap ==
    /\ RunInit /\ AuthDone
    /\ lim = [toggles |-> CapToggles, frames |-> CapFrames,
              conn |-> CapConnEvents, bin |-> 0, ticks |-> 0]

NextCap ==
    \/ Toggle
    \/ BtnPoll
    \/ BtnWriteActive
    \/ BtnPublish
    \/ CapRead
    \/ CapGuardPtt
    \/ CapGuardConn
    \/ CapSend
    \/ CapSendReturn
    \/ LoopWs /\ UNCHANGED iterEdges
    \/ LoopCheck
    \/ LoopClear
    \/ LoopPtt
    \/ LoopIncoming
    \/ LoopPing

SpecCap == InitCap /\ [][NextCap]_vars

(***************************************************************************)
(* SpecUi: the button task and the main loop with inbound audio and the    *)
(* clock.  The capture task is left out: it writes none of the variables   *)
(* the presentation is computed from.                                      *)
(***************************************************************************)
InitUi ==
    /\ RunInit /\ AuthDone
    /\ lim = [toggles |-> UiToggles, frames |-> 0,
              conn |-> UiConnEvents, bin |-> UiBin, ticks |-> UiTicks]

NextUi ==
    \/ Toggle
    \/ Tick
    \/ BtnPoll
    \/ BtnWriteActive
    \/ BtnPublish
    \/ LoopWs /\ UNCHANGED iterEdges
    \/ I2sWriteReturn /\ UNCHANGED wrEdges
    \/ LoopCheck
    \/ LoopClear
    \/ LoopPtt
    \/ LoopIncoming
    \/ LoopPing

SpecUi == InitUi /\ [][NextUi]_vars

(***************************************************************************)
(* SpecAuth: setup() from the reading of the configuration to the end of   *)
(* the authentication, for every combination of server answers.            *)
(***************************************************************************)
InitAuth ==
    /\ RunInit
    /\ lim = [toggles |-> 0, frames |-> 0, conn |-> 0, bin |-> 0, ticks |-> 0]
    /\ pcS = "config" /\ httpClient = "null" /\ statusCode = 0
    /\ responseBody = Body("", "") /\ globalToken = "" /\ globalDeviceId = ""
    /\ requests = <<>> /\ responses = <<>>
    /\ lblStatus = "Reading PTT.json..."

NextAuth ==
    \/ ReadOrCreatePTTConfig /\ UNCHANGED runVars
    \/ LoginToken1 /\ UNCHANGED runVars
    \/ LoginRegister /\ UNCHANGED runVars
    \/ LoginToken2 /\ UNCHANGED runVars
    \/ LoginDevice /\ UNCHANGED runVars
    \/ SetupFinish /\ UNCHANGED runVars

SpecAuth == InitAuth /\ [][NextAuth]_vars

(***************************************************************************)
(* SpecPing: the button task and the main loop over a minute, with the     *)
(* connection coming up, going down and coming up again.                   *)
(***************************************************************************)
InitPing ==
    /\ RunInit /\ AuthDone
    /\ lim = [toggles |-> PingToggles, frames |-> 0,
              conn |-> PingConnEvents, bin |-> 0, ticks |-> PingTicks]

NextPing ==
    \/ Toggle
    \/ LongTick
    \/ BtnPoll
    \/ BtnWriteActive
    \/ BtnPublish
    \/ LoopWs /\ UNCHANGED iterEdges
    \/ LoopCheck
    \/ LoopClear
    \/ LoopPtt
    \/ LoopIncoming
    \/ LoopPing

SpecPing == InitPing /\ [][NextPing]_vars

(***************************************************************************)
(* SpecBoot: setup() and then the running device.  The two tasks exist     *)
(* from their creation at lines 882-900 and loop() is first called when    *)
(* setup() has returned, so their steps are enabled only once setup() is   *)
(* over; the button can be touched at any time.                            *)
(***************************************************************************)
Running == pcS = "running"

InitBoot ==
    /\ RunInit
    /\ lim = [toggles |-> BootToggles, frames |-> BootFrames,
              conn |-> BootConnEvents, bin |-> 0, ticks |-> 0]
    /\ pcS = "config" /\ httpClient = "null" /\ statusCode = 0
    /\ responseBody = Body("", "") /\ globalToken = "" /\ globalDeviceId = ""
    /\ requests = <<>> /\ responses = <<>>
    /\ lblStatus = "Reading PTT.json..."

NextBoot ==
    \/ ReadOrCreatePTTConfig /\ UNCHANGED runVars
    \/ LoginToken1 /\ UNCHANGED runVars
    \/ LoginRegister /\ UNCHANGED runVars
    \/ LoginToken2 /\ UNCHANGED runVars
    \/ LoginDevice /\ UNCHANGED runVars
    \/ SetupFinish /\ UNCHANGED runVars
    \/ Toggle
    \/ Running /\ BtnPoll
    \/ Running /\ BtnWriteActive
    \/ Running /\ BtnPublish
    \/ Running /\ CapRead
    \/ Running /\ CapGuardPtt
    \/ Running /\ CapGuardConn
    \/ Running /\ CapSend
    \/ Running /\ CapSendReturn
    \/ Running /\ LoopWs /\ UNCHANGED iterEdges
    \/ Running /\ LoopCheck
    \/ Running /\ LoopClear
    \/ Running /\ LoopPtt
    \/ Running /\ LoopIncoming
    \/ Running /\ LoopPing

SpecBoot == InitBoot /\ [][NextBoot]_vars

(***************************************************************************)
(* SpecLive: the button task and the main loop with inbound audio, each    *)
(* scheduled fairly.  The button task is created at lines 882-890 and      *)
(* never deleted, loop() is called for ever by the Arduino core on the     *)
(* other core, and neither waits for the other: each takes its next step   *)
(* whenever it has one.  The write to the speaker returns because the I2S  *)
(* port runs as a clock master with TX enabled from setupI2S on (lines     *)
(* 265-309) and is never stopped, so that its DMA queue drains at the      *)
(* sample rate.  The finger and the server are not fair: they may stop at  *)
(* any time.  The capture task is left out: it writes neither flag of the  *)
(* PTT hand-over, none of the labels and no position of loop(), and being  *)
(* scheduled fairly it takes nothing from the other two.                   *)
(***************************************************************************)
InitLive ==
    /\ RunInit /\ AuthDone
    /\ lim = [toggles |-> LiveToggles, frames |-> 0,
              conn |-> LiveConnEvents, bin |-> LiveBin, ticks |-> 0]

ButtonTask == BtnPoll \/ BtnWriteActive \/ BtnPublish

SpeakerWrite == I2sWriteReturn /\ wrEdges' = Len(edges) - iterEdges

MainLoop ==
    \/ LoopWs /\ iterEdges' = Len(edges)
    \/ LoopCheck
    \/ LoopClear
    \/ LoopPtt
    \/ LoopIncoming
    \/ LoopPing

NextLive ==
    \/ Toggle
    \/ ButtonTask
    \/ MainLoop
    \/ SpeakerWrite

SpecLive ==
    /\ InitLive /\ [][NextLive]_vars
    /\ WF_vars(ButtonTask)
    /\ WF_vars(MainLoop)
    /\ WF_vars(SpeakerWrite)

(***************************************************************************)
(* Helpers for the properties.                                             *)
(***************************************************************************)
Range(q) == {q[i] : i \in 1..Len(q)}

IsTalk(m) == m.type \in {"talk_start", "talk_stop"}

\* the talk control messages sent, in order
TalkSeq == SelectSeq(wire, IsTalk)

\* number of messages of type t among the first n of the wire
SentBefore(t, n) == Cardinality({i \in 1..n : wire[i].type = t})

\* activations minus deactivations among the published edges
EdgeBalance ==
    Cardinality({i \in 1..Len(edges) : edges[i]})
      - Cardinality({i \in 1..Len(edges) : ~edges[i]})

\* no context is in the middle of publishing or handling a PTT change
PttQuiet == ~pttStateChanged /\ pcB = "poll" /\ pcL \notin {"clr", "ptt"}

(***************************************************************************)
(* C1: every edge published by ptt_button_task is handled by loop()'s      *)
(* PTT-change branch exactly once: the branch never runs more often than   *)
(* edges were published, and whenever the flag is down every published     *)
(* edge has been handled.                                                  *)
(***************************************************************************)
C1_EachEdgeHandledOnce ==
    /\ handled <= Len(edges)
    /\ ~pttStateChanged => handled = Len(edges)

(***************************************************************************)
(* C2: while the connection stays Connected, the talk control messages on  *)
(* the wire alternate talk_start, talk_stop, starting with talk_start, one *)
(* per published edge.                                                     *)
(***************************************************************************)
C2_TalkAlternates ==
    linkStable =>
      /\ \A i \in 1..Len(TalkSeq) :
           TalkSeq[i].type = IF i % 2 = 1 THEN "talk_start" ELSE "talk_stop"
      /\ PttQuiet => Len(TalkSeq) = Len(edges)

(***************************************************************************)
(* C3: while the connection stays Connected, every binary frame on the     *)
(* wire lies between a talk_start and its talk_stop: before it, one more   *)
(* talk_start than talk_stop has been sent.                                *)
(***************************************************************************)
C3_BinInsideTalk ==
    linkStable =>
      \A i \in 1..Len(wire) :
        wire[i].type = "bin" =>
          SentBefore("talk_start", i) = SentBefore("talk_stop", i) + 1

(***************************************************************************)
(* C4 as stated: a captured frame is passed to sendBIN if and only if both *)
(* flags were true at the instant its read completed; a frame captured     *)
(* while either was false is never sent.                                   *)
(***************************************************************************)
C4_SentIffFlagsAtCompletion ==
    \A f \in 1..frameNo :
      /\ f \in Range(binCalls) => capSnap[f].ptt /\ capSnap[f].conn
      /\ (f < frameNo \/ pcA = "read") =>
           (capSnap[f].ptt /\ capSnap[f].conn => f \in Range(binCalls))

(***************************************************************************)
(* C4 amended: a captured frame is passed to sendBIN if and only if the    *)
(* guard evaluated after the read returned read isPttActive as true and    *)
(* then isWebSocketConnected as true; a frame whose guard failed is not    *)
(* sent in its iteration nor in a later one, and no frame is sent twice.   *)
(***************************************************************************)
C4_SentIffGuardReadTrue ==
    /\ \A f \in 1..frameNo :
         /\ f \in Range(binCalls) => f \in gPtt /\ f \in gConn
         /\ (f < frameNo \/ pcA = "read") =>
              (f \in gPtt /\ f \in gConn => f \in Range(binCalls))
    /\ \A i, j \in 1..Len(binCalls) : i < j => binCalls[i] < binCalls[j]
    /\ Range(binCalls) \subseteq 1..frameNo

\* a frame whose read completed while isPttActive was false has been sent,
\* and another frame has been discarded
C4_Witness ==
    /\ \E f \in Range(binCalls) : ~capSnap[f].ptt
    /\ \E f \in 1..frameNo : f < frameNo /\ f \notin Range(binCalls)

(***************************************************************************)
(* C5: whenever the PTT label reads TALKING, the incoming label does not   *)
(* read INCOMING and the LED is not amber.                                 *)
(***************************************************************************)
C5_TalkingHidesIncoming ==
    lblPttStatus = "TALKING" =>
      lblIncomingStatus # "INCOMING" /\ led # LedAmber

(***************************************************************************)
(* C6: at the end of every loop() iteration with no PTT change pending,    *)
(* the labels and the LED are the row of the presentation table selected   *)
(* by (isPttActive, incoming active).  At the instant the decay window     *)
(* ends either row is accepted, so that the property does not depend on    *)
(* which side of the window that instant belongs to.                       *)
(***************************************************************************)
IncomingActive ==
    binLog # <<>> /\ Elapsed(now, lastAudioReceiveTime) < AUDIO_DECAY_MS

\* the same with the last instant of the window counted as active
IncomingActiveIncl ==
    binLog # <<>> /\ Elapsed(now, lastAudioReceiveTime) <= AUDIO_DECAY_MS

Reducer(ptt, incoming) ==
    IF ptt THEN [ptt |-> "TALKING", incoming |-> "", led |-> LedGreen]
    ELSE IF incoming
         THEN [ptt |-> "HOLD TO TALK", incoming |-> "INCOMING", led |-> LedAmber]
         ELSE [ptt |-> "HOLD TO TALK", incoming |-> "", led |-> LedOff]

Shown == [ptt |-> lblPttStatus, incoming |-> lblIncomingStatus, led |-> led]

C6_PresentationIsTable ==
    [][(pcL = "ping" /\ pcL' = "ws" /\ ~pttStateChanged' /\ pcB' = "poll")
         => \/ Shown' = Reducer(isPttActive', IncomingActive')
            \/ Shown' = Reducer(isPttActive', IncomingActiveIncl')]_vars

(***************************************************************************)
(* C7: with the button untouched and no further inbound frame, a decay     *)
(* check of loop() at time t leaves INCOMING displayed exactly when        *)
(* t - lastAudioReceiveTime < 1200 ms: the instant T + 1200 ms counts as   *)
(* decayed.                                                                *)
(***************************************************************************)
C7_DecayAtWindowEnd ==
    [][(pcL = "rx" /\ pcL' = "ping" /\ nToggles = 0 /\ binLog # <<>>
          /\ ~isReceivingAudio)
         => (lblIncomingStatus' = "INCOMING"
               <=> Elapsed(now, lastAudioReceiveTime) < AUDIO_DECAY_MS)]_vars

(***************************************************************************)
(* C8: with PTT inactive, INCOMING, once shown for a frame, stays shown    *)
(* as long as no more than the decay window has elapsed since the last     *)
(* frame: further frames and the reset of isReceivingAudio do not clear    *)
(* it.  Whatever the button does, the only step that clears INCOMING is a  *)
(* decay check more than the decay window after the last frame.            *)
(***************************************************************************)
C8_IncomingHeldBetweenFrames ==
    /\ []((nToggles = 0 /\ binLog # <<>> /\ ~isReceivingAudio
             /\ Elapsed(now, lastAudioReceiveTime) <= AUDIO_DECAY_MS)
            => lblIncomingStatus = "INCOMING" /\ led = LedAmber)
    /\ [][(lblIncomingStatus = "INCOMING" /\ lblIncomingStatus' # "INCOMING")
            => /\ ~isReceivingAudio
               /\ Elapsed(now, lastAudioReceiveTime) > AUDIO_DECAY_MS]_vars

\* INCOMING is still shown after the first frame's window has run out,
\* because a second frame arrived within it
C8_Witness ==
    /\ nToggles = 0 /\ Len(binLog) = 2 /\ ~isReceivingAudio
    /\ binLog[2] > binLog[1]
    /\ Elapsed(binLog[2], binLog[1]) < AUDIO_DECAY_MS
    /\ Elapsed(now, binLog[1]) > AUDIO_DECAY_MS
    /\ lblIncomingStatus = "INCOMING"

(***************************************************************************)
(* C9: the edges published by ptt_button_task alternate, starting with an  *)
(* activation; a sample equal to the last one publishes nothing; after     *)
(* each poll isPttActive is activations minus deactivations, 0 or 1.       *)
(***************************************************************************)
C9_EdgesAlternate ==
    /\ \A i \in 1..Len(edges) : edges[i] = (i % 2 = 1)
    /\ Len(edges) <= nToggles
    /\ EdgeBalance \in {0, 1}
    /\ pcB = "poll" => (isPttActive <=> EdgeBalance = 1)

\* activation, deactivation, activation published, the task between polls
C9_Witness ==
    /\ Len(edges) >= 3 /\ pcB = "poll" /\ isPttActive

(***************************************************************************)
(* C10: when the first token request is answered 401 and the registration  *)
(* request with a status other than 200/201, loginAndGetDevice has failed  *)
(* (setup() halts) and these two are the only requests issued: no second   *)
(* token request, no device-identity request.                              *)
(***************************************************************************)
RegisterFailedAfter401 ==
    /\ Len(requests) >= 2
    /\ requests[1] = Req("POST /token", 401)
    /\ requests[2].req = "POST /register"
    /\ requests[2].status \notin {200, 201}

C10_NoRetryAfterFailedRegister ==
    RegisterFailedAfter401 => Len(requests) = 2 /\ pcS = "halted"

C10_Witness ==
    RegisterFailedAfter401 /\ pcS = "halted" /\ lblStatus = "Auth Failed!"

(***************************************************************************)
(* C11: when the first token request is answered 401, the registration     *)
(* 200 or 201, the retried token request 200 and the device-identity       *)
(* request 200, the flow goes on after each answer and ends in success,    *)
(* and the token and the device id stored are the ones parsed from the     *)
(* body of the retried token response and of the device-identity response  *)
(* (the access_token and the deviceId themselves when the bodies carry     *)
(* them), not from the body of the 401 answer.                             *)
(***************************************************************************)
\* the first n requests are those of the register-then-retry path, all
\* answered as the success case needs
RegisterPath(n) ==
    /\ Len(requests) >= n
    /\ n >= 1 => requests[1] = Req("POST /token", 401)
    /\ n >= 2 => /\ requests[2].req = "POST /register"
                 /\ requests[2].status \in {200, 201}
    /\ n >= 3 => requests[3] = Req("POST /token", 200)
    /\ n >= 4 => requests[4] = Req("GET /devices/me", 200)

LoginSucceeded == pcS \in {"authok", "running"}

C11_RegisterThenRetrySucceeds ==
    /\ (RegisterPath(1) /\ Len(requests) = 1) => pcS = "register"
    /\ (RegisterPath(2) /\ Len(requests) = 2) => pcS = "token2"
    /\ (RegisterPath(3) /\ Len(requests) = 3) => pcS = "device"
    /\ RegisterPath(4) =>
         /\ Len(requests) = 4 /\ LoginSucceeded
         /\ globalToken = AsString(responses[3].access_token)
         /\ globalDeviceId = AsString(responses[4].deviceId)
         /\ responses[3].access_token # ""
              => globalToken = responses[3].access_token
         /\ responses[4].deviceId # ""
              => globalDeviceId = responses[4].deviceId

\* the success case, with a body of the 401 answer that carries another
\* token than the retried response
C11_Witness ==
    /\ RegisterPath(4) /\ pcS = "running"
    /\ responses[1].access_token = "tokB"
    /\ globalToken = "tokA" /\ globalDeviceId = "devA"

(***************************************************************************)
(* C12: whatever the server answers, one run of loginAndGetDevice issues   *)
(* at most two token requests, one registration request and one            *)
(* device-identity request and then is over; the registration request      *)
(* comes only right after a 401 on the first token request, the second     *)
(* token request only right after a successful registration, and a retried *)
(* token request answered other than 200 ends the flow in failure with     *)
(* nothing issued after it.                                                *)
(***************************************************************************)
Issued(r) == Cardinality({i \in 1..Len(requests) : requests[i].req = r})

LoginRunning == pcS \in {"token1", "register", "token2", "device"}

C12_BoundedRequests ==
    /\ Issued("POST /token") <= 2
    /\ Issued("POST /register") <= 1
    /\ Issued("GET /devices/me") <= 1
    /\ Len(requests) <= 4
    /\ \A i \in 1..Len(requests) :
         /\ requests[i].req = "POST /register"
              => i = 2 /\ requests[1] = Req("POST /token", 401)
         /\ (requests[i].req = "POST /token" /\ i > 1)
              => /\ i = 3 /\ requests[2].req = "POST /register"
                 /\ requests[2].status \in {200, 201}
         /\ requests[i].req = "GET /devices/me"
              => /\ i = Len(requests) /\ ~LoginRunning
                 /\ requests[i - 1] = Req("POST /token", 200)
    /\ (Len(requests) >= 3 /\ requests[3].req = "POST /token"
          /\ requests[3].status # 200)
         => Len(requests) = 3 /\ pcS = "halted"
    /\ (requests # <<>> /\ ~LoginRunning) => pcS \in {"halted", "authok", "running"}

\* the retried token request has failed: two token requests and one
\* registration request were issued, and the flow has ended in failure
C12_Witness ==
    /\ Len(requests) = 3 /\ requests[3].req = "POST /token"
    /\ requests[3].status = 401 /\ pcS = "halted"

(***************************************************************************)
(* C13: a device-identity response with a status other than 200, or with a *)
(* 200 body that carries no deviceId, makes loginAndGetDevice fail, and    *)
(* likewise a token response that carries no access_token: the flow never  *)
(* succeeds without a token and a device id taken from the responses.      *)
(***************************************************************************)
C13_NoSuccessWithoutIdentity ==
    \A i \in 1..Len(requests) :
      /\ (requests[i].req = "GET /devices/me"
            /\ (requests[i].status # 200 \/ responses[i].deviceId = ""))
           => ~LoginSucceeded
      /\ (requests[i].req = "POST /token" /\ requests[i].status = 200
            /\ responses[i].access_token = "")
           => ~LoginSucceeded

(***************************************************************************)
(* C14: no step of the button task, of the capture task or of loop() (and  *)
(* so no connection, which only loop()'s transport pump brings up) is      *)
(* taken before loginAndGetDevice has returned success, that is before a   *)
(* token request and then a device-identity request were answered 200.     *)
(* After a failed login the device is halted for good: it shows            *)
(* "Auth Failed!", issues no further request, and no task and no           *)
(* connection ever starts, whatever the button does.                       *)
(***************************************************************************)
LoginReturnedSuccess ==
    /\ Len(requests) >= 2
    /\ requests[Len(requests)] = Req("GET /devices/me", 200)
    /\ requests[Len(requests) - 1] = Req("POST /token", 200)

\* what the tasks, loop() and the transport write
programVars == <<btnVars, capVars, uiVars, pcL, isPttActive, pttStateChanged,
                 isWebSocketConnected, isReceivingAudio, lastAudioReceiveTime,
                 lastPingTime, nConnEvents, wire, edges, handled, binCalls>>

NothingStarted ==
    /\ pcB = "poll" /\ edges = <<>> /\ ~isPttActive /\ ~pttStateChanged
    /\ pcA = "read" /\ frameNo = 0 /\ binCalls = <<>>
    /\ pcL = "ws" /\ nConnEvents = 0 /\ ~isWebSocketConnected /\ wire = <<>>
    /\ lblPttStatus = "HOLD TO TALK" /\ led = LedOff

C14_AuthGatesEverything ==
    /\ [][programVars' # programVars
            => Running /\ Running' /\ LoginReturnedSuccess]_vars
    /\ [](~Running => NothingStarted)
    /\ [](pcS = "halted" => lblStatus = "Auth Failed!" /\ ~LoginReturnedSuccess)
    /\ [][pcS = "halted"
            => /\ pcS' = "halted" /\ lblStatus' = "Auth Failed!"
               /\ requests' = requests]_vars

\* the login has failed and the button is held: nothing reacts
C14_Witness ==
    /\ pcS = "halted" /\ btnLevel /\ requests # <<>>
    /\ lblStatus = "Auth Failed!" /\ NothingStarted

(***************************************************************************)
(* C16: a ping is put on the wire only by the keepalive step of loop(), in *)
(* an iteration where isWebSocketConnected is true and more than           *)
(* KEEPALIVE_MS have elapsed since lastPingTime, which is the time of the  *)
(* previous ping (of the start, before the first one): so never while      *)
(* disconnected, and n pings take more than n keepalive intervals.  In an  *)
(* iteration where the connection is up and the interval has run out, the  *)
(* ping is sent.                                                           *)
(***************************************************************************)
IsPing(m) == m.type = "ping"

PingSent ==
    Len(SelectSeq(wire', IsPing)) # Len(SelectSeq(wire, IsPing))

PingDue == isWebSocketConnected /\ Elapsed(now, lastPingTime) > KEEPALIVE_MS

C16_PingOnlyWhenDue ==
    /\ [][PingSent
            => /\ pcL = "ping" /\ PingDue
               /\ Len(SelectSeq(wire', IsPing)) = Len(SelectSeq(wire, IsPing)) + 1
               /\ lastPingTime' = now]_vars
    /\ [][lastPingTime' # lastPingTime => PingSent]_vars
    /\ [][(pcL = "ping" /\ pcL' = "ws" /\ PingDue) => PingSent]_vars
    /\ [](Len(SelectSeq(wire, IsPing)) * KEEPALIVE_MS < now)
    /\ [](Len(SelectSeq(wire, IsPing)) > 0 => lastPingTime > KEEPALIVE_MS)

\* a second ping has just been sent, after the connection had been down
\* and had come up again
C16_Witness ==
    /\ Len(SelectSeq(wire, IsPing)) = 2 /\ now = lastPingTime /\ pcL = "ws"
    /\ nConnEvents = 3

(***************************************************************************)
(* C17: a Connected event sets the status text to "Ready", a Disconnected  *)
(* event sets it to "Reconnecting..."; no other step of the running device *)
(* writes the status text, so after a Disconnected event the reconnecting  *)
(* message stays until the next Connected event replaces it.               *)
(***************************************************************************)
ConnEvent == nConnEvents' = nConnEvents + 1

C17_StatusFollowsConnection ==
    /\ [][ConnEvent
            => lblStatus' = IF isWebSocketConnected'
                            THEN "Ready" ELSE "Reconnecting..."]_vars
    /\ [][lblStatus' # lblStatus => ConnEvent /\ pcL = "ws"]_vars
    /\ [](nConnEvents > 0
            => lblStatus = IF isWebSocketConnected
                           THEN "Ready" ELSE "Reconnecting...")

\* connected again after a disconnection, PTT changes handled in between
C17_Witness ==
    /\ nConnEvents = 3 /\ isWebSocketConnected /\ lblStatus = "Ready"
    /\ handled >= 1

(***************************************************************************)
(* C18: the step of loop() that handles a PTT change puts the talk_start   *)
(* (PTT active) or talk_stop (inactive) on the wire if and only if         *)
(* isWebSocketConnected is true in that step, and sets the PTT label and   *)
(* the LED either way.  No other step sends a talk message: one skipped    *)
(* while the connection was down is not sent when it comes back.           *)
(***************************************************************************)
PttHandled == pcL = "ptt" /\ pcL' = "rx"

C18_TalkSentIffConnected ==
    /\ [][PttHandled
            => /\ wire' = IF isWebSocketConnected
                          THEN Append(wire, Msg(IF isPttActive THEN "talk_start"
                                                ELSE "talk_stop", 0))
                          ELSE wire
               /\ lblPttStatus' = IF isPttActive THEN "TALKING"
                                  ELSE "HOLD TO TALK"
               /\ led' = IF isPttActive THEN LedGreen ELSE LedOff]_vars
    /\ [][TalkSeq' # TalkSeq => PttHandled /\ isWebSocketConnected]_vars
    /\ [](Len(TalkSeq) <= handled)

\* a press was handled while the connection was down; the connection is
\* up again, the loop has gone round, and no talk message was ever sent
C18_Witness ==
    /\ handled >= 1 /\ TalkSeq = <<>> /\ lblPttStatus = "TALKING"
    /\ isWebSocketConnected /\ nConnEvents = 3 /\ pcL = "ws" /\ ~pttStateChanged

(***************************************************************************)
(* C19: whenever the capture task invokes sendBIN, isWebSocketConnected is *)
(* true at the moment of the invocation, in every interleaving with        *)
(* loop().                                                                 *)
(***************************************************************************)
C19_ConnectedAtSendBin ==
    [][binCalls' # binCalls => isWebSocketConnected]_vars

(***************************************************************************)
(* C20: every inbound binary frame is written to the speaker exactly once, *)
(* in order of arrival, and sets lastAudioReceiveTime to its arrival time, *)
(* both within the step of the transport pump that dispatches it: they are *)
(* done in every state in which loop() can dispatch the next event or      *)
(* evaluate the incoming indication.  Nothing else writes the speaker or   *)
(* the timestamp, and the state of PTT makes no difference.                *)
(***************************************************************************)
BinDispatched == Len(binLog') = Len(binLog) + 1

C20_FrameStampedAndPlayedOnce ==
    /\ [][BinDispatched
            => /\ pcL = "ws" /\ pcL' = "wr"
               /\ speaker' = Append(speaker, Len(binLog'))
               /\ lastAudioReceiveTime' = now
               /\ isReceivingAudio']_vars
    /\ [][(speaker' # speaker \/ lastAudioReceiveTime' # lastAudioReceiveTime)
            => BinDispatched]_vars
    /\ [](/\ Len(speaker) = Len(binLog)
          /\ \A i \in 1..Len(speaker) : speaker[i] = i
          /\ binLog # <<>> => lastAudioReceiveTime = binLog[Len(binLog)])

\* a second frame has just been dispatched while PTT is active and shown
\* as TALKING
C20_Witness ==
    /\ pcL = "chk" /\ isReceivingAudio /\ lastAudioReceiveTime = now
    /\ isPttActive /\ lblPttStatus = "TALKING"
    /\ speaker = <<1, 2>> /\ binLog[1] < binLog[2]

(***************************************************************************)
(* C21: with no inbound audio, the iteration of loop() whose PTT branch    *)
(* reads the activation turns the LED green, and the LED stays green until *)
(* an iteration whose PTT branch reads the release, which turns it off and *)
(* sets the label to "HOLD TO TALK".  An iteration that began after the    *)
(* release was published ends with the LED off and the label               *)
(* "HOLD TO TALK", as long as the button task has not written a new        *)
(* activation by then.                                                     *)
(***************************************************************************)
IterationEnds == pcL = "ping" /\ pcL' = "ws"

\* the iteration in progress began after the release was published, and
\* the release is still the last the button task has written
BeganAfterRelease ==
    /\ iterEdges > 0 /\ iterEdges = Len(edges) /\ ~edges[Len(edges)]
    /\ pcB # "w2"

C21_GreenUntilReleaseHandled ==
    /\ [][(PttHandled /\ isPttActive)
            => led' = LedGreen /\ lblPttStatus' = "TALKING"]_vars
    /\ [][(led = LedGreen /\ led' # LedGreen)
            => /\ PttHandled /\ ~isPttActive
               /\ led' = LedOff /\ lblPttStatus' = "HOLD TO TALK"]_vars
    /\ [][(IterationEnds /\ BeganAfterRelease)
            => led' = LedOff /\ lblPttStatus' = "HOLD TO TALK"]_vars

\* a hold while connected: talk_start and talk_stop were sent, and the
\* first iteration that began after the release has ended
C21_Witness ==
    /\ pcL = "ws" /\ iterEdges = 2 /\ Len(edges) = 2 /\ handled = 2
    /\ linkStable /\ Len(TalkSeq) = 2
    /\ TalkSeq[1].type = "talk_start" /\ TalkSeq[2].type = "talk_stop"
    /\ led = LedOff /\ lblPttStatus = "HOLD TO TALK"

(***************************************************************************)
(* C22: when loginAndGetDevice is about to issue its first request, the    *)
(* HttpClient has been constructed, whatever readOrCreatePTTConfig found.  *)
(***************************************************************************)
C22_ClientConstructedBeforeLogin ==
    pcS = "token1" => httpClient = "set"

(***************************************************************************)
(* C23: in every state where pttStateChanged is false, loop() is not       *)
(* inside its PTT-change branch and the button task is not between its     *)
(* write of isPttActive and its write of pttStateChanged, the PTT label    *)
(* reads "TALKING" if isPttActive is true and "HOLD TO TALK" if it is      *)
(* false, under every interleaving of the two contexts.                    *)
(***************************************************************************)
C23_LabelConvergesToPtt ==
    (~pttStateChanged /\ pcL \notin {"clr", "ptt"} /\ pcB # "w2")
      => lblPttStatus = IF isPttActive THEN "TALKING" ELSE "HOLD TO TALK"

\* edges were collapsed (three published, two handled) and the label still
\* agrees with the button
C23_Witness ==
    /\ ~pttStateChanged /\ pcL \notin {"clr", "ptt"} /\ pcB = "poll"
    /\ Len(edges) = 3 /\ handled = 2
    /\ isPttActive /\ lblPttStatus = "TALKING"

(***************************************************************************)
(* C24: while the capture task is inside sendBIN, loop() performs no       *)
(* operation on webSocket: no webSocket.loop(), no sendTXT of talk_start   *)
(* or talk_stop, no sendTXT of ping.                                       *)
(***************************************************************************)
\* a step in which loop() calls into webSocket
LoopUsesWebSocket ==
    \/ pcL = "ws" /\ pcL' # "ws"
    \/ pcL = "ptt" /\ pcL' = "rx" /\ isWebSocketConnected
    \/ pcL = "ping" /\ pcL' = "ws" /\ PingDue

C24_WebSocketUsedByOneContext ==
    [][LoopUsesWebSocket => pcA # "insend"]_vars

(***************************************************************************)
(* C25: once setup() has ended successfully, the status text reads "Ready" *)
(* only while isWebSocketConnected is true.                                *)
(***************************************************************************)
C25_ReadyOnlyWhenConnected ==
    (Running /\ lblStatus = "Ready") => isWebSocketConnected

(***************************************************************************)
(* C26: a binary frame goes onto the wire only when a talk_start has been  *)
(* sent on the present connection (after connStart) and no talk_stop has   *)
(* followed it, also when the button was pressed while disconnected and    *)
(* the connection came up during the hold.                                 *)
(***************************************************************************)
FrameSent ==
    /\ Len(wire') = Len(wire) + 1
    /\ wire'[Len(wire')].type = "bin"

TalkOpenOnConnection ==
    \E i \in (connStart + 1)..Len(wire) :
        /\ wire[i].type = "talk_start"
        /\ \A j \in (i + 1)..Len(wire) : wire[j].type # "talk_stop"

C26_FramesInsideTalkOfConnection ==
    [][FrameSent => TalkOpenOnConnection]_vars

(***************************************************************************)
(* C27: with the contexts scheduled fairly, every PTT change the           *)
(* button task publishes is followed by an execution of loop()'s           *)
(* PTT-change branch: pttStateChanged is false again and the branch has    *)
(* run to its end, where the PTT label is written, also when the change is *)
(* published while the pump is blocked in the write of an inbound frame to *)
(* the speaker.                                                            *)
(***************************************************************************)
C27_PttChangeEventuallyHandled ==
    \A n \in 0..LiveToggles :
        /\ (pttStateChanged /\ handled = n)
              ~> (~pttStateChanged /\ handled > n)
        /\ (pttStateChanged /\ handled = n)
              ~> (handled > n /\ pcL = "rx"
                   /\ lblPttStatus \in {"TALKING", "HOLD TO TALK"})

\* the press was published while loop() was blocked in the write of an
\* inbound frame, and the same iteration has handled it
C27_Witness ==
    /\ pcL = "rx" /\ Len(edges) = 1 /\ iterEdges = 0 /\ wrEdges = 1
    /\ handled = 1 /\ ~pttStateChanged
    /\ isPttActive /\ lblPttStatus = "TALKING" /\ speaker # <<>>

=============================================================================
